---- MODULE Spec2Model ----
(***************************************************************************)
(* Warp2Api: verification model of the credential handling, the request    *)
(* translation and the streaming of the answers.                           *)
(*                                                                         *)
(* Two systems live in the repository and are modelled side by side:       *)
(*   - the Go service (internal/auth, internal/warp, internal/handlers):   *)
(*     specification SpecAuth for its token manager, SpecTranslate for the *)
(*     conversion of the two request dialects into the WarpRequest and     *)
(*     SpecService for the two handlers from request to answer;            *)
(*   - the anonymous-token request logic of warp2protobuf (the token rate  *)
(*     limiter, the smart manager, the optimized manager and the API       *)
(*     client's retry loop), given as code listings in the repository:     *)
(*     specification SpecToken.                                            *)
(*                                                                         *)
(* Time is counted in units of five minutes: every duration the modelled   *)
(* code uses (5 min, 10 min, 30 min, 1 h) is a multiple of it.  The retry  *)
(* delays of 3..9 seconds are shorter than a unit and take no time here.   *)
(***************************************************************************)
EXTENDS Integers, Sequences, FiniteSets, TLC

VARIABLES
    now,            \* the wall clock, in units of 5 minutes
    \* ---- Go service -------------------------------------------------------
    cache,          \* Manager.cache, key "jwt_token": <<>> or <<[token, expiration]>>
    RefreshToken,   \* config.Warp.RefreshToken ("" = not configured)
    pc,             \* per worker: where its HTTP request stands
    log,            \* per worker: the endpoints its GetValidToken call has contacted
    ret,            \* what GetValidToken returned in the last step (NoRet if nothing)
    resp,           \* what a handler answered in the last step (NoResp if nothing)
    \* ---- anonymous-token request logic -----------------------------------
    current_token,  \* the JWT in use: its type and expiry
    request_times,  \* TokenRateLimiter: the times of the requests for an anonymous token
    failures,       \* TokenRateLimiter: consecutive_failures and the time of the last one
    recent,         \* TokenRequestDeduplicator: the (context, caller, time) records
    token_cache,    \* TokenCache: per error context, <<>> or <<cached token>>
    in_progress,    \* the error contexts with a request for a token in flight
    task,           \* per worker: its API call or token request
    ev,             \* what the last step did (NoEv if nothing a claim looks at)
    \* ---- Go service: handlers, translation, streaming ---------------------
    hreq,           \* per endpoint: the request body bound by the handler (NoRequest if none)
    warpReq,        \* per endpoint: the WarpRequest built from it (NoWarpRequest if none)
    hpc,            \* per endpoint: where the handler stands
    wire,           \* per endpoint: what the handler has written to the client
    calls,          \* per endpoint: GetValidToken calls and upstream POSTs of the request
    \* ---- Go bridge: the stream-decode endpoint ----------------------------
    dec,            \* per worker: its stream-decode request
    \* ---- Go service: the shared helpers ----------------------------------
    bat,            \* batching.Processor: queue, flag, goroutines, channels
    kv,             \* cache.Manager: the items and the deletions Get has started
    pool,           \* pool.ConnectionPool: clients, available, inUse, the holders
    rl,             \* middleware.RateLimit: the limiter and the last request
    hist,           \* protobuf.Manager: packetHistory and the operations made
    sec             \* auth.Manager: config.Warp.RefreshToken under concurrent refreshes

svcVars == <<hreq, warpReq, hpc, wire, calls>>
decVars == <<dec>>
libVars == <<bat, kv, pool, rl, hist, sec>>
goVars == <<cache, RefreshToken, pc, log, ret, resp>>
tokVars == <<current_token, request_times, failures, recent, token_cache, in_progress,
             task, ev>>
vars == <<now, goVars, tokVars, svcVars, decVars, libVars>>

(***************************************************************************)
(* Bounds of the model.                                                    *)
(***************************************************************************)
NumWorkers == 2
MaxNow == 3

Workers == 1..NumWorkers

(***************************************************************************)
(* Program constants (in units of 5 minutes where they are durations).     *)
(***************************************************************************)
SafetyMargin == 1        \* 5 * time.Minute in isTokenExpired
DefaultExpiration == 1   \* cache.New(5*time.Minute, ...)
RetryCount == 3          \* client.SetRetryCount(3)
HourLifetime == 12       \* a token issued for one hour (expires_in: 3600)

(***************************************************************************)
(* Tokens.  A JWT carries its "exp" claim; `verifies` tells whether        *)
(* jwt.Parse accepts its signature under the key the code supplies, the    *)
(* empty byte string (an RS256 token of the upstream never does, an HS256  *)
(* token signed with the empty key does).  EmptyToken is the empty string  *)
(* that a response without "access_token" unmarshals to.                   *)
(***************************************************************************)
EmptyToken == [kind |-> "empty", exp |-> 0, verifies |-> FALSE]

\* the lifetimes (in units) the issuing endpoints may give a token
Lifetimes == {0, SafetyMargin, HourLifetime}

Jwt(e, v) == [kind |-> "jwt", exp |-> e, verifies |-> v]

IssuedTokens(t) == {Jwt(t + d, v) : d \in Lifetimes, v \in BOOLEAN} \cup {EmptyToken}

\* remaining lifetime of a token at time t (the empty string has none)
Remaining(tok, t) == IF tok.kind = "jwt" THEN tok.exp - t ELSE 0 - 1

(***************************************************************************)
(* jwt.Parse(token, keyFunc returning []byte("")): fails on a token that   *)
(* is not a JWT, on a signature that does not verify under the empty key,  *)
(* and on an "exp" claim that has passed.                                  *)
(***************************************************************************)
jwtParseFails(tok, t) == tok.kind # "jwt" \/ ~tok.verifies \/ t > tok.exp

\* Manager.isTokenExpired: true on a parse error, else now+5min after exp
isTokenExpired(tok, t) ==
    IF jwtParseFails(tok, t) THEN TRUE ELSE t + SafetyMargin > tok.exp

(***************************************************************************)
(* go-cache: Get finds an item unless the clock has passed its expiration; *)
(* Set with cache.DefaultExpiration stores it for DefaultExpiration.       *)
(***************************************************************************)
cacheGet(c, t) == IF c # <<>> /\ ~(t > c[1].expiration) THEN <<c[1].token>> ELSE <<>>

cacheSet(tok, t) == <<[token |-> tok, expiration |-> t + DefaultExpiration]>>

(***************************************************************************)
(* Answers of the two issuing endpoints, as the code tells them apart: a   *)
(* transport error, a status other than 200, a body that does not parse,   *)
(* or a parsed body with its access token and (refresh only) a new secret. *)
(***************************************************************************)
AuthFailures == {[kind |-> "neterr"], [kind |-> "status"], [kind |-> "badjson"]}

RefreshAnswers(t) ==
    {[kind |-> "ok", access |-> a, refresh |-> r] : a \in IssuedTokens(t), r \in {"", "rt2"}}

AnonAnswers(t) == {[kind |-> "ok", access |-> a, refresh |-> ""] : a \in IssuedTokens(t)}

\* `ret`: the worker, the path (a cache hit, or the endpoints contacted), the
\* error flag, and the returned token's kind and remaining lifetime at the
\* moment of return
NoRet == [w |-> 0, hit |-> FALSE, log |-> <<>>, err |-> FALSE, token |-> "", rem |-> 0]

Returned(w, isHit, l, tok) ==
    [w |-> w, hit |-> isHit, log |-> l, err |-> FALSE, token |-> tok.kind,
     rem |-> Remaining(tok, now)]

Failed(w, l) == [w |-> w, hit |-> FALSE, log |-> l, err |-> TRUE, token |-> "", rem |-> 0]

\* `resp`: the worker, the HTTP status and error text written to the client,
\* the upstream's answer to the POST and the number of POSTs made
NoResp == [w |-> 0, status |-> 0, error |-> "", upstream |-> "none", attempts |-> 0]

\* a GetValidToken that goes to the anonymous endpoint whatever is configured
AnonymousFirst(secret) == "anon"

\* which source GetValidToken turns to first when the cache gives nothing
FirstSource(secret) == IF secret # "" THEN "refresh" ELSE "anon"

\* ChatCompletions / Messages: a request without messages is answered 400
\* before anything else happens
Rejected(w) ==
    /\ resp' = [NoResp EXCEPT !.w = w, !.status = 400, !.error = "Messages cannot be empty"]
    /\ ret' = NoRet
    /\ UNCHANGED <<pc, log, cache, RefreshToken>>

(***************************************************************************)
(* GetValidToken, first part: the cache lookup and, on a miss, the first   *)
(* request sent (the refresh request if a secret is configured, else the   *)
(* anonymous request).  A hit returns the cached token; ProcessRequestSync *)
(* then posts the request upstream.                                        *)
(***************************************************************************)
GetValidTokenBegin(w) ==
    LET got == cacheGet(cache, now)
        hit == got # <<>> /\ ~isTokenExpired(got[1], now)
        src == FirstSource(RefreshToken)
    IN  /\ IF hit
           THEN /\ ret' = Returned(w, TRUE, <<>>, got[1])
                /\ pc' = [pc EXCEPT ![w] = "post"]
                /\ UNCHANGED log
           ELSE /\ ret' = NoRet
                /\ log' = [log EXCEPT ![w] = <<src>>]
                /\ pc' = [pc EXCEPT ![w] = src]
        /\ resp' = NoResp
        /\ UNCHANGED <<cache, RefreshToken>>

\* ChatCompletions / Messages, non-streaming: bind, validate, ProcessRequestSync
ChatCompletions(w) ==
    /\ pc[w] = "idle"
    /\ \E nmsg \in {0, 1} : IF nmsg = 0 THEN Rejected(w) ELSE GetValidTokenBegin(w)
    /\ UNCHANGED <<now, tokVars, svcVars, decVars, libVars>>

\* ProcessRequestSync's error, as handleNonStreamingChat answers it
handlerError(w, up, n) ==
    [w |-> w, status |-> 500, error |-> "Internal server error", upstream |-> up, attempts |-> n]

\* GetValidToken returns (tok, nil): cache.Set, then on to the upstream POST
ReturnToken(w, tok) ==
    /\ cache' = cacheSet(tok, now)
    /\ ret' = Returned(w, FALSE, log[w], tok)
    /\ resp' = NoResp
    /\ log' = [log EXCEPT ![w] = <<>>]
    /\ pc' = [pc EXCEPT ![w] = "post"]

\* GetValidToken returns ("", err): ProcessRequestSync fails, the handler answers 500
ReturnError(w) ==
    /\ ret' = Failed(w, log[w])
    /\ resp' = handlerError(w, "none", 0)
    /\ log' = [log EXCEPT ![w] = <<>>]
    /\ pc' = [pc EXCEPT ![w] = "idle"]
    /\ UNCHANGED cache

(***************************************************************************)
(* refreshToken answered.  A failure, or an answer whose access token is   *)
(* empty, sends GetValidToken on to getAnonymousToken; the answer's        *)
(* refresh token, when present, replaces the configured one.               *)
(***************************************************************************)
RefreshAnswered(w) ==
    /\ pc[w] = "refresh"
    /\ \E a \in AuthFailures \cup RefreshAnswers(now) :
        /\ RefreshToken' = IF a.kind = "ok" /\ a.refresh # "" THEN a.refresh ELSE RefreshToken
        /\ IF a.kind = "ok" /\ a.access # EmptyToken
           THEN ReturnToken(w, a.access)
           ELSE /\ log' = [log EXCEPT ![w] = Append(@, "anon")]
                /\ pc' = [pc EXCEPT ![w] = "anon"]
                /\ ret' = NoRet
                /\ resp' = NoResp
                /\ UNCHANGED cache
    /\ UNCHANGED <<now, tokVars, svcVars, decVars, libVars>>

(***************************************************************************)
(* getAnonymousToken answered.  A failure is GetValidToken's error; any    *)
(* parsed answer's access token is cached and returned as it is.           *)
(***************************************************************************)
AnonAnswered(w) ==
    /\ pc[w] = "anon"
    /\ \E a \in AuthFailures \cup AnonAnswers(now) :
        IF a.kind = "ok" THEN ReturnToken(w, a.access) ELSE ReturnError(w)
    /\ UNCHANGED <<now, RefreshToken, tokVars, svcVars, decVars, libVars>>

(***************************************************************************)
(* ProcessRequestSync: the POST to /v1/chat/completions and the handler's  *)
(* answer.  resty repeats a request only after a transport error (no retry *)
(* condition is set), at most RetryCount times; any HTTP answer ends it.   *)
(* fails is the number of transport errors before the last attempt.        *)
(***************************************************************************)
UpstreamAnswers == {"neterr", "ok", "badjson", "quota", "status"}

PostAnswered(w) ==
    /\ pc[w] = "post"
    /\ \E fails \in 0..RetryCount, a \in UpstreamAnswers :
        /\ a = "neterr" => fails = RetryCount
        /\ resp' = IF a = "ok"
                   THEN [w |-> w, status |-> 200, error |-> "", upstream |-> a,
                         attempts |-> fails + 1]
                   ELSE handlerError(w, a, fails + 1)
    /\ ret' = NoRet
    /\ pc' = [pc EXCEPT ![w] = "idle"]
    /\ UNCHANGED <<now, cache, RefreshToken, log, tokVars, svcVars, decVars, libVars>>

\* five minutes pass
TickAuth ==
    /\ now < MaxNow
    /\ now' = now + 1
    /\ ret' = NoRet
    /\ resp' = NoResp
    /\ UNCHANGED <<cache, RefreshToken, pc, log, tokVars, svcVars, decVars, libVars>>


(***************************************************************************)
(*                 The anonymous-token request logic                       *)
(*                                                                         *)
(* The API client sends a call upstream with the current JWT; on an HTTP   *)
(* 429 whose body names quota exhaustion it asks for a new anonymous       *)
(* token, directly when the personal token was in use and through the      *)
(* optimized manager when the anonymous token was, waits a few seconds and *)
(* tries again.  The optimized manager can also be called by hand with any *)
(* error context.  Python runs these coroutines on one event loop: the     *)
(* code between two awaits is one step.                                     *)
(***************************************************************************)
MaxClock == 2          \* SpecToken: the clock stops here
MaxRequests == 4       \* SpecToken: no more token requests than this are issued

\* TokenRateLimiter / SmartTokenManager configuration (RATE_LIMIT_CONFIG)
max_requests_per_hour == 3
max_requests_per_day == 20
min_interval == 1            \* 300 seconds
min_token_lifetime == 6      \* 30 minutes
recent_request_window == 1   \* "current_time - last_request_time < 300"
failure_threshold == 5       \* "consecutive_failures >= 5"
cooldown_base == 1           \* 300 seconds
cooldown_cap_exponent == 4   \* "min(failures - 5, 4)"
dedup_window == 1            \* 300 seconds
cache_ttl == 12              \* 3600 seconds
HourUnits == 12              \* the sliding hour of hourly_count
DayUnits == 288              \* the sliding day of daily_count

\* the error contents a report may carry, and the two substring tests made on them
QuotaText == "No remaining quota"
RateText == "429 Too Many Requests"
Contexts == {QuotaText, RateText}

\* "429" in error_context
Has429(c) == c = RateText

\* "quota" in error_context.lower()
HasQuota(c) == c = QuotaText

\* the error-context analysis: refuse on "429", else refuse unless "quota"
ContextRefuses(c) == IF Has429(c) THEN TRUE ELSE ~HasQuota(c)

\* "No remaining quota" in error_content
HasNoRemainingQuota(c) == c = QuotaText

\* the retry loops of the API client: send_protobuf_to_warp_api (standard),
\* ..._sse, ..._with_parsed_events; each worker runs one of them
Mode(w) == IF w = 1 THEN "standard" ELSE IF w = 2 THEN "sse" ELSE "parsed"

\* a streaming loop given the budget of the buffered ones
SameBudget(mode) == 5

max_attempts(mode) == IF mode = "sse" THEN 2 ELSE 5

\* a dispatch that sends every report through the optimized manager
AlwaysOptimized(origin) == TRUE

\* the API client's dispatch: "if using_personal_token" the token is acquired
\* directly, else through optimized_request_anonymous_token
UsesOptimizedManager(origin) == origin # "personal"

RECURSIVE Pow2(_)
Pow2(n) == IF n = 0 THEN 1 ELSE 2 * Pow2(n - 1)

\* is_token_expired, decided on the token's "exp" with the 5-minute margin
is_token_expired(tok, t) == t + SafetyMargin > tok.expires_at

\* token_age = current_time - (expires_at - 3600)
token_age(tok, t) == t - (tok.expires_at - HourLifetime)

\* a manager for which no token is too new
NeverTooNew(age) == FALSE

\* "if token_age < min_token_lifetime": the anonymous token is too new
TooNew(age) == age < min_token_lifetime

\* hourly_count / recent_requests, daily_count, time of the last request
CountWithin(times, t, window) == Cardinality({i \in 1..Len(times) : t - times[i] < window})

hourly_count(times, t) == CountWithin(times, t, HourUnits)

daily_count(times, t) == CountWithin(times, t, DayUnits)

RequestedWithin(times, t, window) == \E i \in 1..Len(times) : t - times[i] < window

\* cleanup_old_requests: records older than a day are dropped
cleanup_old_requests(times, t) == SelectSeq(times, LAMBDA x : t - x < DayUnits)

\* a limiter that never leaves the cool-down: "if consecutive_failures >= 5:
\* return False"
can_make_request_no_exit(times, f, t) ==
    LET kept == cleanup_old_requests(times, t)
    IN  IF hourly_count(kept, t) >= max_requests_per_hour THEN FALSE
        ELSE IF daily_count(kept, t) >= max_requests_per_day THEN FALSE
        ELSE IF f.consecutive >= failure_threshold THEN FALSE
        ELSE IF RequestedWithin(kept, t, min_interval) THEN FALSE
        ELSE TRUE

\* TokenRateLimiter.can_make_request
can_make_request(times, f, t) ==
    LET kept == cleanup_old_requests(times, t)
    IN  IF hourly_count(kept, t) >= max_requests_per_hour THEN FALSE
        ELSE IF daily_count(kept, t) >= max_requests_per_day THEN FALSE
        ELSE IF f.consecutive >= failure_threshold
                /\ t - f.last_failed
                     < cooldown_base * Pow2(IF f.consecutive - failure_threshold < cooldown_cap_exponent
                                            THEN f.consecutive - failure_threshold
                                            ELSE cooldown_cap_exponent)
             THEN FALSE
        ELSE IF RequestedWithin(kept, t, min_interval) THEN FALSE
        ELSE TRUE

\* SmartTokenManager.should_request_new_anonymous_token; quota_status is the
\* manager's estimate of the current token's quota, an input here
QuotaStatuses == {"AVAILABLE", "LOW", "EXHAUSTED"}

should_request_new_anonymous_token(tok, times, t, error_context, quota_status) ==
    IF hourly_count(times, t) >= max_requests_per_hour THEN FALSE
    ELSE IF tok.type = "none" THEN TRUE
    ELSE IF is_token_expired(tok, t) THEN TRUE
    ELSE IF tok.type = "personal" /\ quota_status \in {"AVAILABLE", "LOW"} THEN FALSE
    ELSE IF tok.type = "anonymous" /\ quota_status = "AVAILABLE" THEN FALSE
    ELSE IF tok.type = "anonymous" /\ TooNew(token_age(tok, t)) THEN FALSE
    ELSE IF ContextRefuses(error_context) THEN FALSE
    ELSE IF RequestedWithin(times, t, recent_request_window) THEN FALSE
    ELSE TRUE

\* TokenRequestDeduplicator.is_duplicate_request: same content and caller
\* within the window
is_duplicate_request(recs, t, error_context, caller_info) ==
    \E r \in recs : r.ctx = error_context /\ r.caller = caller_info /\ t - r.t < dedup_window

\* TokenCache.get_cached_token("anonymous", context): within the TTL and the
\* cached token itself not expired
get_cached_token(tc, t, error_context) ==
    IF tc[error_context] # <<>>
       /\ t - tc[error_context][1].cached_at < cache_ttl
       /\ ~is_token_expired(tc[error_context][1], t)
    THEN tc[error_context] ELSE <<>>

\* a worker at rest; `ev` when the last step is none a claim looks at
IdleTask == [pc |-> "idle", attempt |-> 0, origin |-> "", ctx |-> ""]

NoEv == [kind |-> "none", w |-> 0, origin |-> "", type |-> "", ctx |-> "", outcome |-> "",
         age |-> 0, can |-> FALSE, calls |-> 0]

\* a quota-exhaustion report handled in the last step: who made it, the
\* origin in use when the API client made it ("" for a call by hand), the
\* current token's type, what came of it and, for a request sent, the
\* token's age and what the rate limiter said at that moment
Report(w, o, c, out) ==
    [kind |-> "report", w |-> w, origin |-> o, type |-> current_token.type, ctx |-> c,
     outcome |-> out,
     age |-> IF out = "request" THEN token_age(current_token, now) ELSE 0,
     can |-> out = "request" /\ can_make_request(request_times, failures, now),
     calls |-> 0]

\* an API request ended in the last step after `calls` upstream calls
Finish(w, out) == [NoEv EXCEPT !.kind = "finish", !.w = w, !.outcome = out,
                                !.calls = task[w].attempt]

\* after a report the loop waits 3 + 2*attempt seconds and tries again; a
\* call made by hand is over
Resume(w) == IF task[w].attempt > 0
             THEN [task[w] EXCEPT !.pc = "retry", !.ctx = ""]
             ELSE IdleTask

(***************************************************************************)
(* The API client sends one upstream call with the JWT in use.             *)
(***************************************************************************)
Send(w) ==
    /\ task[w].pc \in {"idle", "retry"}
    /\ task' = [task EXCEPT ![w] = [pc |-> "call", attempt |-> task[w].attempt + 1,
                                    origin |-> current_token.type, ctx |-> ""]]
    /\ ev' = NoEv
    /\ UNCHANGED <<now, current_token, request_times, failures, recent, token_cache,
                   in_progress, goVars, svcVars, decVars, libVars>>

(***************************************************************************)
(* acquire_anonymous_access_token() called directly: the request is        *)
(* recorded (record_anonymous_token_attempt) and sent.                     *)
(***************************************************************************)
acquire_anonymous_access_token(w, c) ==
    /\ Len(request_times) < MaxRequests
    /\ request_times' = Append(request_times, now)
    /\ task' = [task EXCEPT ![w] = [@ EXCEPT !.pc = "direct", !.ctx = c]]
    /\ ev' = Report(w, task[w].origin, c, "request")
    /\ UNCHANGED <<recent, in_progress>>

(***************************************************************************)
(* optimized_request_anonymous_token(error_context, caller_info), up to    *)
(* its first await.  The quota estimate and the quota prediction are       *)
(* inputs.                                                                 *)
(***************************************************************************)
Decision(error_context, caller_info, quota_status, predicted) ==
    IF is_duplicate_request(recent, now, error_context, caller_info) THEN "duplicate"
    ELSE IF get_cached_token(token_cache, now, error_context) # <<>> THEN "cached"
    ELSE IF error_context \in in_progress THEN "wait"
    ELSE IF ~should_request_new_anonymous_token(current_token, request_times, now,
                                                error_context, quota_status) THEN "no_need"
    ELSE IF ~can_make_request(request_times, failures, now) THEN "rate_limited"
    ELSE IF ~predicted THEN "not_predicted"
    ELSE "request"

optimized_request_anonymous_token(w, o, error_context, caller_info) ==
    \E quota_status \in QuotaStatuses, predicted \in BOOLEAN :
        LET d == Decision(error_context, caller_info, quota_status, predicted)
        IN  /\ d = "request" => Len(request_times) < MaxRequests
            /\ recent' = IF d = "duplicate" THEN recent
                          ELSE recent \cup {[ctx |-> error_context, caller |-> caller_info,
                                              t |-> now]}
            /\ in_progress' = IF d = "request" THEN in_progress \cup {error_context}
                               ELSE in_progress
            /\ request_times' = IF d = "request" THEN Append(request_times, now)
                                 ELSE request_times
            /\ task' = [task EXCEPT ![w] =
                           IF d = "request" THEN [@ EXCEPT !.pc = "smart", !.ctx = error_context]
                           ELSE IF d = "wait" THEN [@ EXCEPT !.pc = "waiting", !.ctx = error_context]
                           ELSE Resume(w)]
            /\ ev' = Report(w, o, error_context, d)

(***************************************************************************)
(* The upstream answers a call.  Success and any error other than a 429    *)
(* naming quota exhaustion end the request.  On the quota error the loop   *)
(* reports it, unless this was its last attempt: with the personal token   *)
(* in use it acquires an anonymous token directly, with the anonymous      *)
(* token in use it goes through the optimized manager.                     *)
(***************************************************************************)
Response(w) ==
    /\ task[w].pc = "call"
    /\ \E a \in {"ok", "error"} \cup {c \in Contexts : HasNoRemainingQuota(c)} :
        IF a \in {"ok", "error"}
        THEN /\ task' = [task EXCEPT ![w] = IdleTask]
             /\ ev' = NoEv
             /\ UNCHANGED <<request_times, recent, in_progress>>
        ELSE IF ~(task[w].attempt < max_attempts(Mode(w)))
        THEN /\ task' = [task EXCEPT ![w] = IdleTask]
             /\ ev' = Finish(w, "quota")
             /\ UNCHANGED <<request_times, recent, in_progress>>
        ELSE IF UsesOptimizedManager(task[w].origin)
        THEN optimized_request_anonymous_token(w, task[w].origin, a, Mode(w))
        ELSE acquire_anonymous_access_token(w, a)
    /\ UNCHANGED <<now, current_token, failures, token_cache, goVars, svcVars, decVars, libVars>>

\* the optimized manager called by hand, with any error context
ManualRequest(w) ==
    /\ task[w].pc = "idle"
    /\ \E c \in Contexts : optimized_request_anonymous_token(w, "", c, "manual")
    /\ UNCHANGED <<now, current_token, failures, token_cache, goVars, svcVars, decVars, libVars>>

(***************************************************************************)
(* The anonymous-issuance endpoint answers.  A new token becomes the       *)
(* current one and resets the failure count; the optimized manager also    *)
(* caches it under the error context and clears the in-progress mark.      *)
(***************************************************************************)
AcquireDone(w) ==
    /\ task[w].pc \in {"direct", "smart"}
    /\ \E ok \in BOOLEAN :
        LET tok == [type |-> "anonymous", expires_at |-> now + HourLifetime]
        IN  /\ current_token' = IF ok THEN tok ELSE current_token
            /\ failures' = IF ok THEN [failures EXCEPT !.consecutive = 0]
                           ELSE [consecutive |-> failures.consecutive + 1, last_failed |-> now]
            /\ token_cache' = IF ok /\ task[w].pc = "smart"
                              THEN [token_cache EXCEPT ![task[w].ctx] =
                                      <<[expires_at |-> tok.expires_at, cached_at |-> now]>>]
                              ELSE token_cache
            /\ ev' = NoEv
    /\ in_progress' = IF task[w].pc = "smart" THEN in_progress \ {task[w].ctx} ELSE in_progress
    /\ task' = [task EXCEPT ![w] = Resume(w)]
    /\ UNCHANGED <<now, request_times, recent, goVars, svcVars, decVars, libVars>>

\* wait_for_result() returns once the request in flight is over; the waiter
\* then looks in the cache
WaitDone(w) ==
    /\ task[w].pc = "waiting"
    /\ task[w].ctx \notin in_progress
    /\ ev' = NoEv
    /\ task' = [task EXCEPT ![w] = Resume(w)]
    /\ UNCHANGED <<now, current_token, request_times, failures, recent, token_cache,
                   in_progress, goVars, svcVars, decVars, libVars>>

\* five minutes pass; the deduplicator's expired records are dropped
TickToken ==
    /\ now < MaxClock
    /\ now' = now + 1
    /\ recent' = {r \in recent : now' - r.t < dedup_window}
    /\ ev' = NoEv
    /\ UNCHANGED <<current_token, request_times, failures, token_cache, in_progress, task,
                   goVars, svcVars, decVars, libVars>>

(***************************************************************************)
(*        The Go service: request dialects and their translation           *)
(*                                                                         *)
(* The two public endpoints: /v1/chat/completions ("chat") and             *)
(* /v1/messages ("messages").                                              *)
(***************************************************************************)
Dialects == {"chat", "messages"}

(***************************************************************************)
(* Message content is an interface{}: JSON gives it a string or a list of  *)
(* typed blocks.  A block carries its type, its text (text blocks) and its *)
(* id (the id of a tool_use block, the tool_use_id of a tool_result).      *)
(***************************************************************************)
Str(s) == [kind |-> "string", text |-> s, blocks |-> <<>>]

Blocks(bs) == [kind |-> "blocks", text |-> "", blocks |-> bs]

TextBlock(s) == [type |-> "text", text |-> s, id |-> ""]

ImageBlock == [type |-> "image", text |-> "", id |-> ""]

ToolUse(i) == [type |-> "tool_use", text |-> "", id |-> i]

ToolResult(i) == [type |-> "tool_result", text |-> "", id |-> i]

\* models.ClaudeMessage
ClaudeMessage(r, c) == [role |-> r, content |-> c]

\* models.ChatMessage with Name, ToolCalls and ToolCallID left at their zero values
PlainChatMessage(r, c) ==
    [role |-> r, content |-> c, name |-> "", tool_calls |-> <<>>, tool_call_id |-> ""]

\* the message lists a Messages request is drawn from: none, a plain string,
\* the same text as a block list, text and image, a tool call with its
\* result, and a tool result that answers no tool call
ClaudeConversations ==
    { <<>>,
      <<ClaudeMessage("user", Str("Hello"))>>,
      <<ClaudeMessage("user", Blocks(<<TextBlock("Hello")>>))>>,
      <<ClaudeMessage("user", Blocks(<<TextBlock("Look"), ImageBlock>>)),
        ClaudeMessage("assistant", Str("A cat"))>>,
      <<ClaudeMessage("user", Str("Weather?")),
        ClaudeMessage("assistant", Blocks(<<TextBlock("Let me see"), ToolUse("t1")>>)),
        ClaudeMessage("user", Blocks(<<ToolResult("t1")>>))>>,
      <<ClaudeMessage("user", Blocks(<<ToolResult("t9")>>))>> }

\* the message lists a Chat-Completions request is drawn from: the same
\* ones, and a conversation with a tool call in this dialect's own fields
ChatConversations ==
    { [i \in 1..Len(c) |-> PlainChatMessage(c[i].role, c[i].content)] :
          c \in ClaudeConversations }
    \cup
    { <<PlainChatMessage("system", Str("Be kind")),
        PlainChatMessage("user", Str("Weather?")),
        [role |-> "assistant", content |-> Str(""), name |-> "",
         tool_calls |-> <<[id |-> "t1", type |-> "function",
                         function |-> [name |-> "get_weather", arguments |-> "args1"]]>>,
         tool_call_id |-> ""],
        [role |-> "tool", content |-> Str("Sunny"), name |-> "", tool_calls |-> <<>>,
         tool_call_id |-> "t1"]>> }

\* models.ClaudeTool and models.Tool: one tool declared, or none
ClaudeToolLists ==
    { <<>>,
      <<[name |-> "get_weather", description |-> "Weather of a city",
         input_schema |-> "schema1"]>> }

ChatToolLists ==
    { <<>>,
      <<[type |-> "function",
         function |-> [name |-> "get_weather", description |-> "Weather of a city",
                       parameters |-> "schema1"]]>> }

\* the sampling fields: all left out (zero values), or all set; temperature
\* and top_p in tenths
Samplings ==
    { [max_tokens |-> 0, temperature |-> 0, top_p |-> 0, tool_choice |-> ""],
      [max_tokens |-> 100, temperature |-> 7, top_p |-> 9, tool_choice |-> "auto"] }

\* models.ChatCompletionsRequest
ChatCompletionsRequest(msgs, s, str, tls) ==
    [model |-> "claude-4-sonnet", messages |-> msgs, max_tokens |-> s.max_tokens,
     temperature |-> s.temperature, top_p |-> s.top_p, stream |-> str, tools |-> tls,
     tool_choice |-> s.tool_choice, user |-> ""]

\* models.MessagesRequest
MessagesRequest(msgs, sys, s, str, tls) ==
    [model |-> "claude-4-sonnet", max_tokens |-> s.max_tokens, messages |-> msgs,
     system |-> sys, temperature |-> s.temperature, top_p |-> s.top_p, top_k |-> 0,
     stream |-> str, stop |-> <<>>, tools |-> tls, tool_choice |-> s.tool_choice]

ChatRequests ==
    { ChatCompletionsRequest(m, s, str, t) :
          m \in ChatConversations, s \in Samplings, str \in BOOLEAN, t \in ChatToolLists }

MessagesRequests ==
    { MessagesRequest(m, sys, s, str, t) :
          m \in ClaudeConversations, sys \in {"", "Be kind"}, s \in Samplings,
          str \in BOOLEAN, t \in ClaudeToolLists }

\* no request bound / no WarpRequest built
NoRequest == [model |-> ""]

NoWarpRequest == [model |-> ""]

\* convertToWarpRequest: the seven fields of WarpRequest, copied
convertToWarpRequest(req) ==
    [model |-> req.model, messages |-> req.messages, max_tokens |-> req.max_tokens,
     temperature |-> req.temperature, stream |-> req.stream, tools |-> req.tools,
     tool_choice |-> req.tool_choice]

\* a conversion of a message that loses its content
RoleOnly(msg) == PlainChatMessage(msg.role, Str(""))

\* convertMessagesToWarpRequest, the loop over req.Messages: role and content
ChatMessageOf(msg) == PlainChatMessage(msg.role, msg.content)

\* convertMessagesToWarpRequest, the loop over req.Tools: the function wrapper
ToolOf(tool) ==
    [type |-> "function",
     function |-> [name |-> tool.name, description |-> tool.description,
                   parameters |-> tool.input_schema]]

\* convertMessagesToWarpRequest
convertMessagesToWarpRequest(req) ==
    [model |-> req.model,
     messages |-> [i \in 1..Len(req.messages) |-> ChatMessageOf(req.messages[i])],
     max_tokens |-> req.max_tokens, temperature |-> req.temperature, stream |-> req.stream,
     tools |-> [i \in 1..Len(req.tools) |-> ToolOf(req.tools[i])],
     tool_choice |-> req.tool_choice]

(***************************************************************************)
(* The conversions on their own: a request of either dialect is drawn and  *)
(* converted.                                                              *)
(***************************************************************************)
ConvertChat ==
    /\ \E req \in ChatRequests :
          /\ hreq' = [hreq EXCEPT !["chat"] = req]
          /\ warpReq' = [warpReq EXCEPT !["chat"] = convertToWarpRequest(req)]
    /\ UNCHANGED <<libVars, decVars, now, goVars, tokVars, hpc, wire, calls>>

ConvertMessages ==
    /\ \E req \in MessagesRequests :
          /\ hreq' = [hreq EXCEPT !["messages"] = req]
          /\ warpReq' = [warpReq EXCEPT !["messages"] = convertMessagesToWarpRequest(req)]
    /\ UNCHANGED <<libVars, decVars, now, goVars, tokVars, hpc, wire, calls>>

(***************************************************************************)
(*     The Go service: the handlers, from the request to the answer        *)
(*                                                                         *)
(* What a handler writes to its client, in order: a JSON answer with its   *)
(* status (c.JSON), a bare status (gin.Recovery after a panic), an SSE     *)
(* data line (Stream.SendEvent) or the newline of Stream.Close.  Of an SSE *)
(* event only the JSON of its Data is written, "data: ...\n\n"; the        *)
(* event's name and id are not.  `type` is the "type" member of the JSON   *)
(* written, `error` the error text (JSON answers) or the type of the       *)
(* "error" member (data lines), `text` the content or message, `body` the  *)
(* response object of a 200 answer.                                        *)
(***************************************************************************)
NoBody == [model |-> ""]

\* the "index" member of a JSON object that has none
NoIndex == 0 - 1

JSONError(status, msg) ==
    [kind |-> "json", status |-> status, type |-> "", error |-> msg, text |-> "",
     index |-> NoIndex, body |-> NoBody]

JSONOk(body) ==
    [kind |-> "json", status |-> 200, type |-> "", error |-> "", text |-> "",
     index |-> NoIndex, body |-> body]

\* gin.Recovery: AbortWithStatus(500), no body
Recovered ==
    [kind |-> "status", status |-> 500, type |-> "", error |-> "", text |-> "",
     index |-> NoIndex, body |-> NoBody]

DataLine(data) ==
    [kind |-> "data", status |-> 0, type |-> data.type, error |-> data.error,
     text |-> data.text, index |-> data.index, body |-> NoBody]

Newline ==
    [kind |-> "newline", status |-> 0, type |-> "", error |-> "", text |-> "",
     index |-> NoIndex, body |-> NoBody]

\* Stream.SendEvent: json.Marshal(event.Data), one data line, flush
SendEvent(w, data) == Append(w, DataLine(data))

\* Stream.SendError: an ErrorResponse of type "server_error" with the error's text
SendError(w, err) == SendEvent(w, [type |-> "", error |-> "server_error", text |-> err, index |-> NoIndex])

\* Stream.SendDone: the event "done" with the empty object as its data
DoneData == [type |-> "", error |-> "", text |-> "", index |-> NoIndex]

SendDone(w) == SendEvent(w, DoneData)

\* Stream.Close: a final newline
Close(w) == Append(w, Newline)

\* Client.handleStreamingResponse: one event, whatever the upstream's body holds
SimulatedData ==
    [type |-> "", error |-> "", text |-> "This is a simulated streaming response",
     index |-> NoIndex]

handleStreamingResponse(w) == SendEvent(w, SimulatedData)

(***************************************************************************)
(* The upstream's answers to the POST: a transport error, a status other   *)
(* than 200, a body that does not parse, or a WarpResponse: no choice or   *)
(* one, with its content, its finish_reason and the usage counts.          *)
(***************************************************************************)
FinishReasons == {"stop", "length", "recitation"}

Usages ==
    { [prompt_tokens |-> 0, completion_tokens |-> 0],
      [prompt_tokens |-> 12, completion_tokens |-> 34] }

\* the model names the upstream reports: the one the request named, or the
\* upstream's own name for it
UpstreamModels == {"claude-4-sonnet", "claude-3-5-sonnet-20241022"}

\* models.ToolCall as the upstream reports it in Choices[0].Message.ToolCalls
UpstreamToolCall ==
    [id |-> "call_1", type |-> "function",
     function |-> [name |-> "get_weather", arguments |-> "args1"]]

WarpResponses ==
    { [kind |-> "ok", model |-> m, choices |-> <<>>, usage |-> u] :
          m \in UpstreamModels, u \in Usages }
    \cup
    { [kind |-> "ok", model |-> m,
       choices |-> <<[message |-> PlainChatMessage("assistant", Str(t)),
                      finish_reason |-> f]>>,
       usage |-> u] :
          m \in UpstreamModels, t \in {"", "Hello there"}, f \in FinishReasons,
          u \in Usages }
    \cup
    { [kind |-> "ok", model |-> m,
       choices |-> <<[message |-> [PlainChatMessage("assistant", Str(""))
                                      EXCEPT !.tool_calls = <<UpstreamToolCall>>],
                      finish_reason |-> "tool_calls"]>>,
       usage |-> u] :
          m \in UpstreamModels, u \in Usages }

NoAnswer == [kind |-> "none"]

ServiceAnswers == {[kind |-> "neterr"], [kind |-> "status"], [kind |-> "badjson"]}
                      \cup WarpResponses

\* per request: the calls of GetValidToken and of Post, and the upstream's answer
NoCalls == [token |-> 0, post |-> 0, answer |-> NoAnswer]

\* handleNonStreamingChat: the WarpResponse is the answer's body as it is
ChatBody(warpResp) ==
    [model |-> warpResp.model,
     content |-> IF warpResp.choices = <<>> THEN <<>>
                 ELSE <<warpResp.choices[1].message.content>>,
     tool_calls |-> IF warpResp.choices = <<>> THEN <<>>
                    ELSE warpResp.choices[1].message.tool_calls,
     stop |-> IF warpResp.choices = <<>> THEN "" ELSE warpResp.choices[1].finish_reason,
     input_tokens |-> warpResp.usage.prompt_tokens,
     output_tokens |-> warpResp.usage.completion_tokens]

\* convertWarpToMessagesResponse (applied to a response with a choice): the
\* content is the one text block of a string content, ClaudeContent has no
\* other fields than type and text, and MessagesResponse has no tool_calls
convertWarpToMessagesResponse(warpResp) ==
    [model |-> warpResp.model,
     content |-> IF warpResp.choices[1].message.content.kind = "string"
                 THEN <<TextBlock(warpResp.choices[1].message.content.text)>>
                 ELSE <<>>,
     tool_calls |-> <<>>,
     stop |-> warpResp.choices[1].finish_reason,
     input_tokens |-> warpResp.usage.prompt_tokens,
     output_tokens |-> warpResp.usage.completion_tokens]

\* a validation that lets every message list pass
NeverEmpty(req) == FALSE

\* the handlers' validation: len(req.Messages) == 0
MessagesEmpty(req) == Len(req.messages) = 0

\* the requests the handlers are given: every message list, streamed or not
ServiceRequests(d) ==
    IF d = "chat"
    THEN { r \in ChatRequests : r.tools = <<>> /\ r.max_tokens = 0 }
    ELSE { r \in MessagesRequests : r.tools = <<>> /\ r.max_tokens = 0 /\ r.system = "" }

convert(d, req) ==
    IF d = "chat" THEN convertToWarpRequest(req) ELSE convertMessagesToWarpRequest(req)

(***************************************************************************)
(* ChatCompletions / Messages up to the call of GetValidToken: the body is *)
(* bound, an empty message list is answered 400; otherwise the request is  *)
(* converted and ProcessRequest or ProcessRequestSync asks for a token.    *)
(* Nothing is written yet: the streaming handlers only set the headers.    *)
(***************************************************************************)
Handle(d) ==
    /\ hpc[d] \in {"idle", "done", "failed"}
    /\ \E bound \in BOOLEAN, req \in ServiceRequests(d) :
          IF ~bound
          THEN /\ hreq' = [hreq EXCEPT ![d] = NoRequest]
               /\ warpReq' = [warpReq EXCEPT ![d] = NoWarpRequest]
               /\ wire' = [wire EXCEPT ![d] = <<JSONError(400, "Invalid request format")>>]
               /\ calls' = [calls EXCEPT ![d] = NoCalls]
               /\ hpc' = [hpc EXCEPT ![d] = "done"]
          ELSE IF MessagesEmpty(req)
          THEN /\ hreq' = [hreq EXCEPT ![d] = req]
               /\ warpReq' = [warpReq EXCEPT ![d] = NoWarpRequest]
               /\ wire' = [wire EXCEPT ![d] = <<JSONError(400, "Messages cannot be empty")>>]
               /\ calls' = [calls EXCEPT ![d] = NoCalls]
               /\ hpc' = [hpc EXCEPT ![d] = "done"]
          ELSE /\ hreq' = [hreq EXCEPT ![d] = req]
               /\ warpReq' = [warpReq EXCEPT ![d] = convert(d, req)]
               /\ wire' = [wire EXCEPT ![d] = <<>>]
               /\ calls' = [calls EXCEPT ![d] = [NoCalls EXCEPT !.token = 1]]
               /\ hpc' = [hpc EXCEPT ![d] = "token"]

\* Handlers.ChatCompletions
ChatCompletionsHandler ==
    /\ Handle("chat")
    /\ UNCHANGED <<libVars, decVars, now, goVars, tokVars>>

\* Handlers.Messages
MessagesHandler ==
    /\ Handle("messages")
    /\ UNCHANGED <<libVars, decVars, now, goVars, tokVars>>

(***************************************************************************)
(* ProcessRequest / ProcessRequestSync returned an error.  The streaming   *)
(* handlers send it as an event and return, the deferred Close writes its  *)
(* newline; the others answer 500.                                         *)
(***************************************************************************)
Fail(d, err) ==
    /\ wire' = [wire EXCEPT ![d] =
                   IF hreq[d].stream THEN Close(SendError(@, err))
                   ELSE <<JSONError(500, "Internal server error")>>]
    /\ hpc' = [hpc EXCEPT ![d] = "failed"]

\* GetValidToken returned: with an error the request fails, with a token it is posted
TokenReturned(d) ==
    /\ hpc[d] = "token"
    /\ \E ok \in BOOLEAN :
          IF ok
          THEN /\ hpc' = [hpc EXCEPT ![d] = "post"]
               /\ calls' = [calls EXCEPT ![d].post = 1]
               /\ UNCHANGED wire
          ELSE /\ Fail(d, "failed to get valid token")
               /\ UNCHANGED calls
    /\ UNCHANGED <<libVars, decVars, now, goVars, tokVars, hreq, warpReq>>

(***************************************************************************)
(* The POST answered.  Streaming: handleStreamingResponse sends its one    *)
(* event, the handler returns and Close writes the newline.  Otherwise the *)
(* body is parsed and answered with status 200, for /v1/messages after     *)
(* convertWarpToMessagesResponse, which indexes Choices[0] and panics on a *)
(* response without choices.                                               *)
(***************************************************************************)
UpstreamAnswered(d) ==
    /\ hpc[d] = "post"
    /\ \E a \in ServiceAnswers :
          /\ calls' = [calls EXCEPT ![d].answer = IF hreq[d].stream /\ a.kind = "ok"
                                                  THEN [kind |-> "ok"] ELSE a]
          /\ IF a.kind = "neterr" THEN Fail(d, "failed to make request to Warp API")
             ELSE IF a.kind = "status" THEN Fail(d, "Warp API returned error")
             ELSE IF hreq[d].stream
             THEN /\ wire' = [wire EXCEPT ![d] = Close(handleStreamingResponse(@))]
                  /\ hpc' = [hpc EXCEPT ![d] = "done"]
             ELSE IF a.kind = "badjson" THEN Fail(d, "failed to parse response")
             ELSE /\ wire' = [wire EXCEPT ![d] =
                                 IF d = "chat" THEN <<JSONOk(ChatBody(a))>>
                                 ELSE IF a.choices = <<>> THEN <<Recovered>>
                                 ELSE <<JSONOk(convertWarpToMessagesResponse(a))>>]
                  /\ hpc' = [hpc EXCEPT ![d] = "done"]
    /\ UNCHANGED <<libVars, decVars, now, goVars, tokVars, hreq, warpReq>>

(***************************************************************************)
(*                 The bridge's stream-decode endpoint                     *)
(*                                                                         *)
(* Handlers.StreamDecode binds the JSON body and calls                     *)
(* Service.StreamDecodeProtobuf, which writes one SSE event for every      *)
(* chunk StreamDecoder.DecodeChunk gives it until DecodeChunk returns the  *)
(* error "EOF".  Each pass of the loop is two steps: the decoding, and the *)
(* write with its flush and its sleep of 100 ms.                           *)
(***************************************************************************)
MaxChunks == 3   \* the events of a request are counted up to this number

\* the bodies posted: one that is no JSON object, and two objects
DecodeBodies ==
    { [json |-> FALSE, data |-> ""],
      [json |-> TRUE, data |-> ""],
      [json |-> TRUE, data |-> "0a0b"] }

\* no chunk written yet
NoChunk == [chunk |-> "", timestamp |-> 0]

NoDecode == [pc |-> "idle", data |-> "", sent |-> 0, status |-> 0, last |-> NoChunk]

\* StreamDecoder.DecodeChunk: the data wrapped with a timestamp and
\* marshalled; json.Marshal does not fail on a map that came from JSON, and
\* no other error is ever returned
DecodeChunk(data) == [chunk |-> [chunk |-> data, timestamp |-> now], err |-> ""]

\* Handlers.StreamDecode up to the loop: ShouldBindJSON, 400 on a failure
StreamDecode(w) ==
    /\ dec[w].pc \in {"idle", "done"}
    /\ \E body \in DecodeBodies :
          dec' = [dec EXCEPT ![w] =
                    IF ~body.json THEN [NoDecode EXCEPT !.pc = "done", !.status = 400]
                    ELSE [NoDecode EXCEPT !.pc = "decode", !.data = body.data]]
    /\ UNCHANGED <<now, goVars, tokVars, svcVars, libVars>>

\* the loop's DecodeChunk and the test of its error: "EOF" ends the loop
\* and the handler returns (status 200), any other error is answered 500
DecodeStep(w) ==
    /\ dec[w].pc = "decode"
    /\ LET r == DecodeChunk(dec[w].data)
       IN  dec' = [dec EXCEPT ![w] =
                     IF r.err = "EOF" THEN [@ EXCEPT !.pc = "done", !.status = 200]
                     ELSE IF r.err # "" THEN [@ EXCEPT !.pc = "done", !.status = 500]
                     ELSE [@ EXCEPT !.pc = "write", !.last = r.chunk]]
    /\ UNCHANGED <<now, goVars, tokVars, svcVars, libVars>>

\* the SSE event is written and flushed, the loop sleeps and starts over
WriteEvent(w) ==
    /\ dec[w].pc = "write"
    /\ dec' = [dec EXCEPT ![w] =
                 [@ EXCEPT !.pc = "decode",
                           !.sent = IF @ < MaxChunks THEN @ + 1 ELSE MaxChunks]]
    /\ UNCHANGED <<now, goVars, tokVars, svcVars, libVars>>

(***************************************************************************)
(*                     batching.Processor                                  *)
(*                                                                         *)
(* AddRequest appends to the queue under the mutex and starts a goroutine: *)
(* processBatch when the queue is full, startTimeout when the request is   *)
(* the queue's first.  Every section that holds the mutex is one step; the *)
(* goroutines started but not yet at their lock are counted.  Requests are *)
(* numbered in the order they are added.                                   *)
(***************************************************************************)
batchSize == 10    \* GetGlobalProcessor: batchSize: 10
MaxAdded == 11     \* SpecBatch: no more requests than this are added

\* a processBatch that does not look at the processing flag
NeverBusy(processing) == FALSE

\* processBatch: "if p.processing"
Busy(processing) == processing

BatchInit ==
    bat = [requests |-> <<>>, processing |-> FALSE, timers |-> 0, spawned |-> 0,
           batches |-> {}, added |-> 0, got |-> <<>>, taken |-> <<>>]

\* Processor.AddRequest
AddRequest ==
    /\ bat.added < MaxAdded
    /\ LET queue == Append(bat.requests, bat.added + 1)
       IN  bat' = [bat EXCEPT !.requests = queue,
                              !.added = @ + 1,
                              !.got = Append(@, 0),
                              !.taken = Append(@, 0),
                              !.spawned = IF Len(queue) >= batchSize THEN @ + 1 ELSE @,
                              !.timers = IF Len(queue) < batchSize /\ Len(queue) = 1
                                         THEN @ + 1 ELSE @]
    /\ UNCHANGED <<now, goVars, tokVars, svcVars, decVars, kv, pool, rl, hist, sec>>

\* Processor.startTimeout, after its sleep
startTimeout ==
    /\ bat.timers > 0
    /\ bat' = [bat EXCEPT !.timers = @ - 1,
                          !.spawned = IF Len(bat.requests) > 0 /\ ~bat.processing
                                      THEN @ + 1 ELSE @]
    /\ UNCHANGED <<now, goVars, tokVars, svcVars, decVars, kv, pool, rl, hist, sec>>

\* Processor.processBatch, its first locked section: return when a batch is
\* being processed or the queue is empty, else take the whole queue
processBatch ==
    /\ bat.spawned > 0
    /\ IF Busy(bat.processing) \/ Len(bat.requests) = 0
       THEN bat' = [bat EXCEPT !.spawned = @ - 1]
       ELSE bat' = [bat EXCEPT !.spawned = @ - 1,
                               !.processing = TRUE,
                               !.batches = @ \cup {[reqs |-> bat.requests,
                                                    phase |-> "process"]},
                               !.requests = <<>>,
                               !.taken = [i \in 1..Len(@) |->
                                            IF \E j \in 1..Len(bat.requests) :
                                                    bat.requests[j] = i
                                            THEN @[i] + 1 ELSE @[i]]]
    /\ UNCHANGED <<now, goVars, tokVars, svcVars, decVars, kv, pool, rl, hist, sec>>

\* processRequests and the sends: one response per request of the batch,
\* dropped when the channel's buffer of 1 is full
SendResponses ==
    /\ \E b \in bat.batches :
          /\ b.phase = "process"
          /\ bat' = [bat EXCEPT !.batches = (@ \ {b}) \cup {[b EXCEPT !.phase = "finish"]},
                                !.got = [i \in 1..Len(@) |->
                                           IF (\E j \in 1..Len(b.reqs) : b.reqs[j] = i)
                                              /\ @[i] = 0
                                           THEN 1 ELSE @[i]]]
    /\ UNCHANGED <<now, goVars, tokVars, svcVars, decVars, kv, pool, rl, hist, sec>>

\* processBatch, its last locked section: p.processing = false
FinishBatch ==
    /\ \E b \in bat.batches :
          /\ b.phase = "finish"
          /\ bat' = [bat EXCEPT !.batches = @ \ {b}, !.processing = FALSE]
    /\ UNCHANGED <<now, goVars, tokVars, svcVars, decVars, kv, pool, rl, hist, sec>>

(***************************************************************************)
(*                         cache.Manager                                   *)
(*                                                                         *)
(* Every method holds the mutex from its first line to its return and is   *)
(* one step.  Get starts a goroutine that calls Delete when it finds the   *)
(* entry expired; these goroutines are counted per key until they run.     *)
(***************************************************************************)
MaxCacheClock == 3   \* SpecCache: the clock stops here
MaxDeferred == 2     \* SpecCache: no more deferred deletions than this wait per key

CacheKeys == {"k1", "k2"}
CacheValues == {"v1", "v2"}
CacheTTLs == {1, 2}

NoCacheOp == [op |-> "none", key |-> "", found |-> FALSE, value |-> "", expires_at |-> 0,
              at |-> 0]

CacheInit ==
    kv = [items |-> [k \in CacheKeys |-> <<>>],
          deleting |-> [k \in CacheKeys |-> 0],
          last |-> NoCacheOp]

\* a Get that takes no entry for expired
NeverExpired(item, t) == FALSE

\* time.Now().After(item.ExpiresAt)
Expired(item, t) == t > item.expires_at

\* Manager.Set(key, value, ttl)
CacheSet ==
    /\ \E k \in CacheKeys, v \in CacheValues, ttl \in CacheTTLs :
          kv' = [kv EXCEPT !.items[k] = <<[value |-> v, expires_at |-> now + ttl]>>,
                           !.last = [NoCacheOp EXCEPT !.op = "set", !.key = k, !.at = now]]
    /\ UNCHANGED <<now, goVars, tokVars, svcVars, decVars, bat, pool, rl, hist, sec>>

\* Manager.Get(key)
CacheGet ==
    /\ \E k \in CacheKeys :
          IF kv.items[k] = <<>>
          THEN kv' = [kv EXCEPT !.last = [NoCacheOp EXCEPT !.op = "get", !.key = k,
                                                           !.at = now]]
          ELSE IF Expired(kv.items[k][1], now)
          THEN /\ kv.deleting[k] < MaxDeferred
               /\ kv' = [kv EXCEPT !.deleting[k] = @ + 1,
                                   !.last = [NoCacheOp EXCEPT !.op = "get", !.key = k,
                                                              !.at = now]]
          ELSE kv' = [kv EXCEPT !.last = [op |-> "get", key |-> k, found |-> TRUE,
                                          value |-> kv.items[k][1].value,
                                          expires_at |-> kv.items[k][1].expires_at,
                                          at |-> now]]
    /\ UNCHANGED <<now, goVars, tokVars, svcVars, decVars, bat, pool, rl, hist, sec>>

\* Manager.Delete(key), called by a user of the cache
CacheDelete ==
    /\ \E k \in CacheKeys :
          kv' = [kv EXCEPT !.items[k] = <<>>,
                           !.last = [NoCacheOp EXCEPT !.op = "delete", !.key = k, !.at = now]]
    /\ UNCHANGED <<now, goVars, tokVars, svcVars, decVars, bat, pool, rl, hist, sec>>

\* "go m.Delete(key)": the deletion Get started runs
DeferredDelete ==
    /\ \E k \in CacheKeys :
          /\ kv.deleting[k] > 0
          /\ kv' = [kv EXCEPT !.items[k] = <<>>,
                              !.deleting[k] = @ - 1,
                              !.last = [NoCacheOp EXCEPT !.op = "deferred", !.key = k,
                                                         !.at = now]]
    /\ UNCHANGED <<now, goVars, tokVars, svcVars, decVars, bat, pool, rl, hist, sec>>

\* Manager.Cleanup: the expired entries are removed
Cleanup ==
    /\ kv' = [kv EXCEPT !.items = [k \in CacheKeys |->
                                     IF kv.items[k] # <<>> /\ now > kv.items[k][1].expires_at
                                     THEN <<>> ELSE kv.items[k]],
                        !.last = [NoCacheOp EXCEPT !.op = "cleanup", !.at = now]]
    /\ UNCHANGED <<now, goVars, tokVars, svcVars, decVars, bat, pool, rl, hist, sec>>

\* time passes
TickCache ==
    /\ now < MaxCacheClock
    /\ now' = now + 1
    /\ kv' = [kv EXCEPT !.last = NoCacheOp]
    /\ UNCHANGED <<goVars, tokVars, svcVars, decVars, bat, pool, rl, hist, sec>>

(***************************************************************************)
(*                       pool.ConnectionPool                               *)
(*                                                                         *)
(* The clients are numbered in the order of their creation: p.clients is   *)
(* 1..nclients and p.clients[0] is client 1.  held[c] is the number of     *)
(* callers that have been handed client c and have not returned it.        *)
(***************************************************************************)
maxSize == 10          \* GetGlobalPool: maxSize: 10
InitialClients == 3    \* initialize: "for i := 0; i < 3; i++"
MaxHolders == 12       \* SpecPool: no more callers than this hold a client
MaxReturns == 3        \* SpecPool: no more clients than this are returned

PoolClients == 1..maxSize

PoolInit ==
    pool = [nclients |-> InitialClients,
            available |-> [i \in 1..InitialClients |-> i],
            inUse |-> {},
            held |-> [c \in PoolClients |-> 0],
            returns |-> 0,
            last |-> 0]

\* the callers holding a client
Holders == LET S[c \in 0..maxSize] == IF c = 0 THEN 0 ELSE S[c - 1] + pool.held[c]
           IN  S[maxSize]

\* ConnectionPool.GetClient: the last available client, else a new client
\* while fewer than maxSize exist, else p.clients[0]
GetClient ==
    /\ Holders < MaxHolders
    /\ LET n == Len(pool.available)
           c == IF n > 0 THEN pool.available[n]
                ELSE IF pool.nclients < maxSize THEN pool.nclients + 1
                ELSE 1
       IN  pool' = [pool EXCEPT !.available = IF n > 0 THEN SubSeq(@, 1, n - 1) ELSE @,
                                !.nclients = IF n = 0 /\ @ < maxSize THEN @ + 1 ELSE @,
                                !.inUse = @ \cup {c},
                                !.held[c] = @ + 1,
                                !.last = c]
    /\ UNCHANGED <<now, goVars, tokVars, svcVars, decVars, bat, kv, rl, hist, sec>>

\* ConnectionPool.ReturnClient(client), by a caller that holds the client
ReturnClient ==
    /\ pool.returns < MaxReturns
    /\ \E c \in PoolClients :
          /\ pool.held[c] > 0
          /\ pool' = [pool EXCEPT !.held[c] = @ - 1,
                                  !.inUse = @ \ {c},
                                  !.available = IF c \in pool.inUse THEN Append(@, c) ELSE @,
                                  !.returns = @ + 1,
                                  !.last = 0]
    /\ UNCHANGED <<now, goVars, tokVars, svcVars, decVars, bat, kv, rl, hist, sec>>

(***************************************************************************)
(*                      middleware.RateLimit                               *)
(*                                                                         *)
(* Time is counted in seconds.  The limiter is a token bucket of           *)
(* cfg.BurstSize tokens, full at the start, that gains Limit(r) tokens a   *)
(* second and spends one on every admitted request.                        *)
(***************************************************************************)
MaxIdle == 3           \* SpecRateLimit: seconds without a request that are counted

Rates == {30, 60, 120}     \* RATE_LIMIT_RPM
Bursts == {1, 2}           \* RATE_LIMIT_BURST

NotAsked == [kind |-> "none", idle |-> 0, status |-> 0, handler |-> FALSE]

\* rate.NewLimiter(limit, b): the bucket starts full
NewLimiter(r, b) == [r |-> r, burst |-> b, tokens |-> b, idle |-> 0, last |-> NotAsked]

DefaultRPM == 60       \* Load: RATE_LIMIT_RPM's default
DefaultBurst == 10     \* Load: RATE_LIMIT_BURST's default

RateLimitInit == rl = NewLimiter(DefaultRPM, DefaultBurst)

\* rate.Limit(cfg.RequestsPerMinute/60.0): RequestsPerMinute is an int, and
\* the constant 60.0 takes its type: the division is the integers'
Limit(r) == r \div 60

\* a second passes with no request
TickRateLimit ==
    /\ rl.idle < MaxIdle
    /\ rl' = [rl EXCEPT !.idle = @ + 1,
                        !.tokens = IF @ + Limit(rl.r) > rl.burst THEN rl.burst
                                   ELSE @ + Limit(rl.r)]
    /\ UNCHANGED <<now, goVars, tokVars, svcVars, decVars, bat, kv, pool, hist, sec>>

\* the handler function RateLimit returns, on one request:
\*   if !limiter.Allow() { c.JSON(429, ...); c.Abort(); return }; c.Next()
RateLimit ==
    /\ rl' = IF rl.tokens >= 1
             THEN [rl EXCEPT !.tokens = @ - 1, !.idle = 0,
                             !.last = [kind |-> "admitted", idle |-> rl.idle,
                                       status |-> 200, handler |-> TRUE]]
             ELSE [rl EXCEPT !.idle = 0,
                             !.last = [kind |-> "refused", idle |-> rl.idle,
                                       status |-> 429, handler |-> FALSE]]
    /\ rl' # rl
    /\ UNCHANGED <<now, goVars, tokVars, svcVars, decVars, bat, kv, pool, hist, sec>>

(***************************************************************************)
(*                 protobuf.Manager: the packet history                    *)
(*                                                                         *)
(* The calls are numbered in the order in which they are made, one after   *)
(* another; an entry of the history is the call's number and its           *)
(* operation.  calls is the record of all the calls made.                  *)
(***************************************************************************)
historyLimit == 100    \* addToHistory: "if len(m.packetHistory) > 100"
MaxOps == 102          \* SpecHistory: no more calls than this are made
MaxDecodes == 1        \* SpecHistory: no more of them than this are Decode calls

HistoryInit ==
    hist = [packetHistory |-> <<>>, calls |-> <<>>, decodes |-> 0]

\* a trim that keeps the oldest entries
KeepOldest(h) ==
    IF Len(h) > historyLimit THEN SubSeq(h, 1, historyLimit) ELSE h

\* m.packetHistory[len(m.packetHistory)-100:] when the length is above 100
KeepLast(h) ==
    IF Len(h) > historyLimit THEN SubSeq(h, Len(h) - historyLimit + 1, Len(h)) ELSE h

\* Manager.addToHistory(operation, input, output)
addToHistory(operation) ==
    LET entry == [n |-> Len(hist.calls) + 1, operation |-> operation]
    IN  hist' = [hist EXCEPT !.packetHistory = KeepLast(Append(@, entry)),
                             !.calls = Append(@, operation),
                             !.decodes = IF operation = "decode" THEN @ + 1 ELSE @]

\* Manager.Encode(data)
Encode ==
    /\ Len(hist.calls) < MaxOps
    /\ addToHistory("encode")
    /\ UNCHANGED <<now, goVars, tokVars, svcVars, decVars, bat, kv, pool, rl, sec>>

\* Manager.Decode(data)
Decode ==
    /\ Len(hist.calls) < MaxOps
    /\ hist.decodes < MaxDecodes
    /\ addToHistory("decode")
    /\ UNCHANGED <<now, goVars, tokVars, svcVars, decVars, bat, kv, pool, rl, sec>>

(***************************************************************************)
(*          auth.Manager: the stored refresh secret under refreshes        *)
(*                                                                         *)
(* The secrets the upstream issues are numbered in the order of their      *)
(* issue; secret 1 is the configured one, 0 stands for "" (the response     *)
(* carries no refresh_token).  The Manager has no mutex: a call's read of  *)
(* m.config.Warp.RefreshToken, the upstream's answer and the call's write  *)
(* are separate steps of its goroutine.                                    *)
(***************************************************************************)
MaxIssued == 4         \* SpecSecret: the upstream issues no more secrets than this

SecretIdle == [pc |-> "idle", sent |-> 0, got |-> 0]

SecretInit ==
    sec = [stored |-> 1,
           issued |-> 1,
           call |-> [w \in Workers |-> SecretIdle],
           info |-> 0]

\* Manager.refreshToken, up to the Post: the request body is built from
\* m.config.Warp.RefreshToken
RefreshPost(w) ==
    /\ sec.call[w].pc = "idle"
    /\ sec.stored # 0
    /\ sec' = [sec EXCEPT !.call[w] = [pc |-> "posted", sent |-> sec.stored, got |-> 0]]
    /\ UNCHANGED <<now, goVars, tokVars, svcVars, decVars, bat, kv, pool, rl, hist>>

\* the upstream's answer to the Post: a failure, a 200 without a
\* refresh_token, or a 200 with a newly issued one
RefreshResponse(w) ==
    /\ sec.call[w].pc = "posted"
    /\ \/ sec' = [sec EXCEPT !.call[w] = SecretIdle]
       \/ sec' = [sec EXCEPT !.call[w].pc = "answered", !.call[w].got = 0]
       \/ /\ sec.issued < MaxIssued
          /\ sec' = [sec EXCEPT !.issued = @ + 1,
                                !.call[w].pc = "answered",
                                !.call[w].got = sec.issued + 1]
    /\ UNCHANGED <<now, goVars, tokVars, svcVars, decVars, bat, kv, pool, rl, hist>>

\* Manager.refreshToken, after the answer:
\*   if refreshResp.RefreshToken != "" { m.config.Warp.RefreshToken = ... }
RefreshStore(w) ==
    /\ sec.call[w].pc = "answered"
    /\ sec' = [sec EXCEPT !.stored = IF sec.call[w].got # 0 THEN sec.call[w].got ELSE @,
                          !.call[w] = SecretIdle]
    /\ UNCHANGED <<now, goVars, tokVars, svcVars, decVars, bat, kv, pool, rl, hist>>

\* Manager.GetTokenInfo: TokenInfo.RefreshToken is read from the config
GetTokenInfo ==
    /\ sec' = [sec EXCEPT !.info = sec.stored]
    /\ sec.info # sec.stored
    /\ UNCHANGED <<now, goVars, tokVars, svcVars, decVars, bat, kv, pool, rl, hist>>


(***************************************************************************)
(* The specifications.                                                     *)
(***************************************************************************)

DecodeInit == dec = [w \in Workers |-> NoDecode]

\* the shared helpers as they are constructed
LibInit ==
    /\ BatchInit
    /\ CacheInit
    /\ PoolInit
    /\ RateLimitInit
    /\ HistoryInit
    /\ SecretInit

ServiceInit ==
    /\ hreq = [d \in Dialects |-> NoRequest]
    /\ warpReq = [d \in Dialects |-> NoWarpRequest]
    /\ hpc = [d \in Dialects |-> "idle"]
    /\ wire = [d \in Dialects |-> <<>>]
    /\ calls = [d \in Dialects |-> NoCalls]

GoInit ==
    /\ cache = <<>>
    /\ pc = [w \in Workers |-> "idle"]
    /\ log = [w \in Workers |-> <<>>]
    /\ ret = NoRet
    /\ resp = NoResp

TokenInit ==
    /\ request_times = <<>>
    /\ failures = [consecutive |-> 0, last_failed |-> 0]
    /\ recent = {}
    /\ token_cache = [c \in Contexts |-> <<>>]
    /\ in_progress = {}
    /\ task = [w \in Workers |-> IdleTask]
    /\ ev = NoEv

InitAuth ==
    /\ now = 0
    /\ RefreshToken \in {"", "rt1"}
    /\ current_token = [type |-> "none", expires_at |-> 0]
    /\ GoInit
    /\ TokenInit
    /\ ServiceInit
    /\ DecodeInit
    /\ LibInit

NextAuth ==
    \/ \E w \in Workers : ChatCompletions(w)
    \/ \E w \in Workers : RefreshAnswered(w)
    \/ \E w \in Workers : AnonAnswered(w)
    \/ \E w \in Workers : PostAnswered(w)
    \/ TickAuth

SpecAuth == InitAuth /\ [][NextAuth]_vars

\* the token in use at the start is a new personal token, or an anonymous
\* token issued up to an hour before: new, one step short of the 30-minute
\* floor, or one step short of expiry
InitialExpiries == {HourLifetime, HourLifetime - min_token_lifetime + 1, SafetyMargin}

InitToken ==
    /\ now = 0
    /\ RefreshToken = "rt1"
    /\ current_token \in {[type |-> "personal", expires_at |-> HourLifetime]}
                          \cup {[type |-> "anonymous", expires_at |-> e] : e \in InitialExpiries}
    /\ GoInit
    /\ TokenInit
    /\ ServiceInit
    /\ DecodeInit
    /\ LibInit

NextToken ==
    \/ \E w \in Workers : Send(w)
    \/ \E w \in Workers : Response(w)
    \/ \E w \in Workers : ManualRequest(w)
    \/ \E w \in Workers : AcquireDone(w)
    \/ \E w \in Workers : WaitDone(w)
    \/ TickToken

SpecToken == InitToken /\ [][NextToken]_vars

\* the conversions: nothing converted yet
InitTranslate ==
    /\ now = 0
    /\ RefreshToken = ""
    /\ current_token = [type |-> "none", expires_at |-> 0]
    /\ GoInit
    /\ TokenInit
    /\ ServiceInit
    /\ DecodeInit
    /\ LibInit

NextTranslate ==
    \/ ConvertChat
    \/ ConvertMessages

SpecTranslate == InitTranslate /\ [][NextTranslate]_vars

\* the handlers: no request yet on either endpoint
InitService ==
    /\ now = 0
    /\ RefreshToken = ""
    /\ current_token = [type |-> "none", expires_at |-> 0]
    /\ GoInit
    /\ TokenInit
    /\ ServiceInit
    /\ DecodeInit
    /\ LibInit

NextService ==
    \/ ChatCompletionsHandler
    \/ MessagesHandler
    \/ \E d \in Dialects : TokenReturned(d)
    \/ \E d \in Dialects : UpstreamAnswered(d)

SpecService == InitService /\ [][NextService]_vars

(***************************************************************************)
(*                     Properties of the Go service                        *)
(***************************************************************************)
\* the texts by which an error names quota exhaustion (QUOTA_ERROR_PATTERNS)
QUOTA_ERROR_PATTERNS ==
    {"No remaining quota", "No AI requests remaining", "quota exhausted"}

\* C1: every token GetValidToken returns without an error has, when it is
\* returned, at least the 5-minute safety margin left, on every path (cache
\* hit, personal refresh, anonymous acquisition).
C1_ReturnedTokenHasMargin ==
    (ret.w # 0 /\ ~ret.err) => ret.rem >= SafetyMargin

C5_FreshCachedTokenReturned ==
    [][\A w \in Workers :
         (/\ pc[w] = "idle" /\ pc'[w] # "idle"
          /\ cacheGet(cache, now) # <<>>
          /\ Remaining(cacheGet(cache, now)[1], now) > SafetyMargin)
         => (/\ pc'[w] = "post"
             /\ ret'.w = w /\ ret'.hit
             /\ ret'.rem = Remaining(cacheGet(cache, now)[1], now))]_vars

\* C10: a request that ends on the upstream's quota-exhausted answer is
\* answered with an error that names quota exhaustion, never with a success
\* and never with the quota error dropped.
C10_QuotaErrorReported ==
    resp.upstream = "quota" => (resp.status # 200 /\ resp.error \in QUOTA_ERROR_PATTERNS)

(***************************************************************************)
(*            Properties of the anonymous-token request logic              *)
(***************************************************************************)
\* a worker with a request to the anonymous-issuance endpoint in flight
InFlight(w) == task[w].pc \in {"direct", "smart"}

\* a report made with the anonymous token in use: by the API client with
\* the anonymous token, or by hand while the current token is anonymous
AnonymousReport == ev.kind = "report" /\ ev.origin # "personal" /\ ev.type = "anonymous"

\* C2: of concurrent reports with the same error context only one request
\* reaches the endpoint, and no report is turned away empty-handed while
\* the request it duplicates is still in flight.
C2_IdenticalReportsShareOneRequest ==
    /\ \A w1, w2 \in Workers :
          (w1 # w2 /\ InFlight(w1) /\ InFlight(w2)) => task[w1].ctx # task[w2].ctx
    /\ (ev.kind = "report" /\ ev.outcome = "duplicate") =>
          ~\E w \in Workers : w # ev.w /\ InFlight(w) /\ task[w].ctx = ev.ctx

\* C3: with the personal token answered quota-exhausted every time, a report
\* acquires an anonymous token, and the requests sent to the endpoint within
\* the last hour never exceed the hourly limit.
C3_HourlyLimitKept ==
    /\ (ev.kind = "report" /\ ev.origin = "personal") => ev.outcome = "request"
    /\ hourly_count(request_times, now) <= max_requests_per_hour

C8_RateContextNeverRequests ==
    (AnonymousReport /\ Has429(ev.ctx) /\ ~HasQuota(ev.ctx)) => ev.outcome # "request"

\* C9: a request answered quota-exhausted every time makes at most 5
\* upstream calls when buffered and at most 2 when streaming, and ends
\* after the last of them.
C9_AttemptsBounded ==
    /\ \A w \in Workers : task[w].attempt <= (IF Mode(w) = "sse" THEN 2 ELSE 5)
    /\ (ev.kind = "finish" /\ ev.outcome = "quota") =>
          /\ ev.calls = (IF Mode(ev.w) = "sse" THEN 2 ELSE 5)
          /\ task[ev.w] = IdleTask

\* C9 witness: the streaming request gave up after its 2nd call while the
\* buffered one is in its 5th
C9_Witness ==
    /\ ev.kind = "finish" /\ ev.outcome = "quota" /\ Mode(ev.w) = "sse" /\ ev.calls = 2
    /\ \E w \in Workers : Mode(w) = "standard" /\ task[w].pc = "call" /\ task[w].attempt = 5

(***************************************************************************)
(*              Properties of the translation of requests                  *)
(***************************************************************************)
\* the endpoint's request has been converted
Translated(d) == warpReq[d] # NoWarpRequest

SystemInstruction(wr) == IF "system" \in DOMAIN wr THEN wr.system ELSE ""

\* C17: the system instruction of a Messages request's `system` field is the
\* system instruction of the WarpRequest built from it, and it is not made a
\* turn of the message list.
C17_SystemCarried ==
    (Translated("messages") /\ hreq["messages"].system # "") =>
        /\ SystemInstruction(warpReq["messages"]) = hreq["messages"].system
        /\ Len(warpReq["messages"].messages) = Len(hreq["messages"].messages)
        /\ \A i \in 1..Len(warpReq["messages"].messages) :
              warpReq["messages"].messages[i].role # "system"

\* the content of a turn as its ordered segments: a plain string is one text
\* segment
Segments(c) == IF c.kind = "string" THEN <<TextBlock(c.text)>> ELSE c.blocks

\* a Chat-Completions request c and a Messages request m with the same
\* model, turns, max tokens, temperature, top-p, stream flag, tool
\* declarations and tool choice
SameContent(c, m) ==
    /\ c.model = m.model
    /\ Len(c.messages) = Len(m.messages)
    /\ \A i \in 1..Len(c.messages) :
          /\ c.messages[i].role = m.messages[i].role
          /\ Segments(c.messages[i].content) = Segments(m.messages[i].content)
          /\ c.messages[i].name = ""
          /\ c.messages[i].tool_calls = <<>>
          /\ c.messages[i].tool_call_id = ""
    /\ c.max_tokens = m.max_tokens
    /\ c.temperature = m.temperature
    /\ c.top_p = m.top_p
    /\ c.stream = m.stream
    /\ Len(c.tools) = Len(m.tools)
    /\ \A i \in 1..Len(c.tools) :
          /\ c.tools[i].function.name = m.tools[i].name
          /\ c.tools[i].function.description = m.tools[i].description
          /\ c.tools[i].function.parameters = m.tools[i].input_schema
    /\ c.tool_choice = m.tool_choice

\* C18: a Chat-Completions request and a Messages request with the same
\* content are converted to equal WarpRequests, the tool declarations to the
\* same list whether or not the dialect wraps them in a function object.
C18_SameContentSameRequest ==
    (Translated("chat") /\ Translated("messages")
       /\ SameContent(hreq["chat"], hreq["messages"]))
    => warpReq["chat"] = warpReq["messages"]

(***************************************************************************)
(*                    Properties of the two handlers                       *)
(***************************************************************************)
\* the endpoint's handler has bound a request body
Bound(d) == hreq[d] # NoRequest

\* C15: a request with an empty message list is answered 400 at once on
\* either endpoint: no token is asked for and nothing is posted upstream.
C15_EmptyListRejected ==
    \A d \in Dialects :
        (Bound(d) /\ Len(hreq[d].messages) = 0) =>
            /\ hpc[d] = "done"
            /\ wire[d] = <<JSONError(400, "Messages cannot be empty")>>
            /\ calls[d] = NoCalls

\* C15 witness: both endpoints have rejected a request without messages
C15_Witness ==
    \A d \in Dialects :
        /\ Bound(d) /\ Len(hreq[d].messages) = 0
        /\ hpc[d] = "done" /\ wire[d][1].status = 400

\* a tool_result block of the message list whose id is the id of no
\* tool_use block before it, in the same or an earlier message
Dangling(msgs) ==
    \E i \in 1..Len(msgs) : \E j \in 1..Len(msgs[i].content.blocks) :
        /\ msgs[i].content.blocks[j].type = "tool_result"
        /\ ~\E i2 \in 1..i : \E j2 \in 1..Len(msgs[i2].content.blocks) :
               /\ i2 < i \/ j2 < j
               /\ msgs[i2].content.blocks[j2].type = "tool_use"
               /\ msgs[i2].content.blocks[j2].id = msgs[i].content.blocks[j].id

\* C14: a request with a tool_result that answers no earlier tool_use is
\* answered with a validation error (status 400) and nothing of it is sent
\* upstream.
C14_DanglingResultRejected ==
    \A d \in Dialects :
        (Bound(d) /\ Dangling(hreq[d].messages)) =>
            /\ hpc[d] = "done"
            /\ Len(wire[d]) = 1 /\ wire[d][1].kind = "json" /\ wire[d][1].status = 400
            /\ calls[d] = NoCalls

(***************************************************************************)
(*                 Properties of the streamed answers                      *)
(***************************************************************************)
\* the handler opened a stream for the request and has returned
StreamOver(d) ==
    /\ Bound(d)
    /\ hreq[d].stream /\ Len(hreq[d].messages) > 0
    /\ hpc[d] \in {"done", "failed"}

IsEvent(wr) == wr.kind = "data"

\* the events written to a client, in order
Events(w) == SelectSeq(w, IsEvent)

\* a stream-end marker: the done event of SendDone, the [DONE] line of the
\* Chat-Completions dialect, the message_stop event of the Messages dialect
IsEndMarker(wr) ==
    /\ wr.kind = "data"
    /\ wr = DataLine(DoneData) \/ wr.text = "[DONE]" \/ wr.type = "message_stop"

\* an event that carries an error
IsErrorEvent(wr) == wr.kind = "data" /\ wr.error # ""

\* C11: every streamed answer, on either endpoint, ends with a stream-end
\* marker and holds exactly one: after a normal completion, after an
\* upstream answer without content and after a failed or cut upstream call.
C11_OneEndMarker ==
    \A d \in Dialects :
        StreamOver(d) =>
            LET e == Events(wire[d])
            IN  /\ Len(SelectSeq(e, IsEndMarker)) = 1
                /\ IsEndMarker(e[Len(e)])

\* C12: a streaming request that fails after its stream was opened gets
\* exactly one error event on the stream, then the stream-end marker, and
\* no answer outside the stream.
C12_ErrorThenEnd ==
    \A d \in Dialects :
        (StreamOver(d) /\ hpc[d] = "failed") =>
            LET e == Events(wire[d])
            IN  /\ Len(SelectSeq(e, IsErrorEvent)) = 1
                /\ \A i \in 1..Len(wire[d]) : wire[d][i].kind \in {"data", "newline"}
                /\ Len(e) >= 2
                /\ IsErrorEvent(e[Len(e) - 1])
                /\ IsEndMarker(e[Len(e)])

\* the number of events of type t among the events e
CountType(e, t) == Cardinality({i \in 1..Len(e) : e[i].type = t})

\* C13: a streamed answer of /v1/messages starts with its one message_start,
\* has a content_block_start of an index before every content_block_delta
\* and content_block_stop of that index, block indices never decreasing,
\* and ends with message_delta and its one message_stop.
C13_MessagesEventOrder ==
    (StreamOver("messages") /\ hpc["messages"] = "done") =>
        LET e == Events(wire["messages"])
            n == Len(e)
            block == {i \in 1..n : e[i].type \in {"content_block_start",
                                                  "content_block_delta",
                                                  "content_block_stop"}}
        IN  /\ n >= 3
            /\ e[1].type = "message_start" /\ CountType(e, "message_start") = 1
            /\ e[n - 1].type = "message_delta"
            /\ e[n].type = "message_stop" /\ CountType(e, "message_stop") = 1
            /\ \A i \in block :
                  e[i].type # "content_block_start" =>
                      \E j \in 1..(i - 1) : /\ e[j].type = "content_block_start"
                                            /\ e[j].index = e[i].index
            /\ \A i, j \in block : i < j => e[i].index <= e[j].index

(***************************************************************************)
(*                 Properties of the rendered answers                      *)
(***************************************************************************)
\* the upstream answered the endpoint's buffered request with a response
\* that has a choice, and the handler has returned
Rendered(d) ==
    /\ Bound(d)
    /\ ~hreq[d].stream
    /\ hpc[d] \in {"done", "failed"}
    /\ calls[d].answer.kind = "ok"
    /\ calls[d].answer.choices # <<>>

\* the finish reasons of the upstream's vocabulary
KnownFinishReasons == {"stop", "length", "tool_calls", "content_filter"}

\* the stop codes of each dialect
StopCodes(d) ==
    IF d = "messages" THEN {"end_turn", "max_tokens", "stop_sequence", "tool_use", "other"}
    ELSE {"stop", "length", "tool_calls", "content_filter", "other"}

\* C19: the rendered answer's stop code is one of the requesting dialect's
\* vocabulary for every upstream stop reason: on /v1/messages a normal
\* completion ("stop") is rendered end_turn, and a stop reason that is not
\* known is rendered "other" in an answer with status 200.
C19_StopReasonMapped ==
    \A d \in Dialects :
        Rendered(d) =>
            LET f == calls[d].answer.choices[1].finish_reason
            IN  /\ Len(wire[d]) = 1 /\ wire[d][1].kind = "json" /\ wire[d][1].status = 200
                /\ wire[d][1].body.stop \in StopCodes(d)
                /\ (d = "messages" /\ f = "stop") => wire[d][1].body.stop = "end_turn"
                /\ f \notin KnownFinishReasons => wire[d][1].body.stop = "other"

\* C20: upstream token counts that are both non-zero are rendered as they
\* are; with a count of zero and a content that is not empty the rendered
\* counts are not zero.
C20_UsageNeverZero ==
    \A d \in Dialects :
        Rendered(d) =>
            LET u == calls[d].answer.usage
                t == calls[d].answer.choices[1].message.content.text
            IN  /\ Len(wire[d]) = 1 /\ wire[d][1].kind = "json" /\ wire[d][1].status = 200
                /\ (u.prompt_tokens > 0 /\ u.completion_tokens > 0) =>
                       /\ wire[d][1].body.input_tokens = u.prompt_tokens
                       /\ wire[d][1].body.output_tokens = u.completion_tokens
                /\ ((u.prompt_tokens = 0 \/ u.completion_tokens = 0) /\ t # "") =>
                       /\ wire[d][1].body.input_tokens > 0
                       /\ wire[d][1].body.output_tokens > 0

\* the tool invocations of the upstream's turn
UpstreamToolCalls(d) == calls[d].answer.choices[1].message.tool_calls

\* C21: every tool invocation of the upstream's turn is in the rendered
\* answer: a tool_use content segment with the call's id on /v1/messages, the
\* tool_calls field itself on /v1/chat/completions.
C21_ToolCallsRendered ==
    \A d \in Dialects :
        Rendered(d) =>
            /\ Len(wire[d]) = 1 /\ wire[d][1].kind = "json" /\ wire[d][1].status = 200
            /\ IF d = "chat"
               THEN wire[d][1].body.tool_calls = UpstreamToolCalls(d)
               ELSE \A i \in 1..Len(UpstreamToolCalls(d)) :
                       \E j \in 1..Len(wire[d][1].body.content) :
                           /\ wire[d][1].body.content[j].type = "tool_use"
                           /\ wire[d][1].body.content[j].id = UpstreamToolCalls(d)[i].id

\* a well-formed request that is not streamed has been answered
AnsweredSync(d) ==
    /\ Bound(d)
    /\ ~hreq[d].stream
    /\ Len(hreq[d].messages) > 0
    /\ hpc[d] \in {"done", "failed"}

\* C22: a well-formed request that is not streamed and has at least one
\* message is answered with status 200 and a response body, on
\* /v1/chat/completions and on /v1/messages.
C22_WellFormedAnswered200 ==
    \A d \in Dialects :
        AnsweredSync(d) =>
            /\ Len(wire[d]) = 1
            /\ wire[d][1].kind = "json"
            /\ wire[d][1].status = 200
            /\ wire[d][1].body # NoBody

\* C23: the model of a /v1/messages answer is the model the request named.
C23_RequestModelReturned ==
    Rendered("messages") =>
        /\ Len(wire["messages"]) = 1
        /\ wire["messages"][1].kind = "json"
        /\ wire["messages"][1].status = 200
        /\ wire["messages"][1].body.model = hreq["messages"].model

(***************************************************************************)
(*          Further properties of GetValidToken and its cache              *)
(***************************************************************************)
\* a worker whose GetValidToken has a request to an issuing endpoint in flight
Acquiring(w) == pc[w] \in {"refresh", "anon"}

\* C24: at every moment at most one request to an issuing endpoint is in
\* flight: workers that find no valid cached token share one acquisition.
C24_OneAcquisitionInFlight ==
    \A w1, w2 \in Workers : (Acquiring(w1) /\ Acquiring(w2)) => w1 = w2

\* C28: an answer of the anonymous endpoint that does not parse or carries
\* no access token makes GetValidToken return an error and leaves the cache
\* entry as it was.
C28_MalformedAnswerFailsCall ==
    [][\A w \in Workers :
         (/\ pc[w] = "anon" /\ pc'[w] # "anon"
          /\ ret'.w = w
          /\ (ret'.err \/ ret'.token = "empty"))
         => (ret'.err /\ cache' = cache)]_vars

\* C29: a cache entry ends no later than the cached token's own expiry.
C29_EntryEndsBeforeToken ==
    (cache # <<>> /\ cache[1].token.kind = "jwt") =>
        cache[1].expiration <= cache[1].token.exp

(***************************************************************************)
(*      Further properties of the anonymous-token request logic            *)
(***************************************************************************)
\* C30: when a call made with the anonymous token is answered 429 with a
\* quota error and the call is to be tried again, a new anonymous token is
\* requested first: a request is sent, or the one in flight or the token it
\* has just brought is taken.
C30_AnonymousQuotaRequestsToken ==
    (ev.kind = "report" /\ ev.origin = "anonymous") =>
        ev.outcome \in {"request", "wait", "cached"}

(***************************************************************************)
(*                   The rate limiter over a long run                      *)
(*                                                                         *)
(* TokenRateLimiter followed over more than an hour, from a state in which *)
(* a number of acquisitions in a row have just failed.  Those were made on *)
(* the direct path, which does not ask the limiter, so that any number of  *)
(* them fits into the first five minutes.                                  *)
(***************************************************************************)
MaxPriorFailures == 9     \* SpecLimiter: failed acquisitions before the run
MaxLimiterClock == 17     \* SpecLimiter: the clock stops here
MaxLimiterRequests == 11  \* SpecLimiter: no more requests than this are recorded

\* the limiter after k failed acquisitions in a row, all at time 0
AfterFailures(k) ==
    /\ request_times = [i \in 1..k |-> 0]
    /\ failures = [consecutive |-> k, last_failed |-> 0]

\* smart_request_anonymous_token, steps 5 and 6, for a report that passes the
\* steps before them: check_rate_limit, and when the limiter permits the
\* attempt is recorded and the request sent
LimitedAttempt(w) ==
    /\ task[w].pc = "idle"
    /\ QuotaText \notin in_progress
    /\ Len(request_times) < MaxLimiterRequests
    /\ can_make_request(request_times, failures, now)
    /\ request_times' = Append(request_times, now)
    /\ in_progress' = in_progress \cup {QuotaText}
    /\ task' = [task EXCEPT ![w] = [IdleTask EXCEPT !.pc = "smart", !.ctx = QuotaText]]
    /\ ev' = Report(w, "", QuotaText, "request")
    /\ UNCHANGED <<now, current_token, failures, recent, token_cache, goVars, svcVars, decVars, libVars>>

\* the endpoint answers the attempt: record_anonymous_token_success / _failure
AttemptDone(w) ==
    /\ AcquireDone(w)
    /\ task'[w] = IdleTask

\* five minutes pass
TickLimiter ==
    /\ now < MaxLimiterClock
    /\ now' = now + 1
    /\ ev' = NoEv
    /\ UNCHANGED <<current_token, request_times, failures, recent, token_cache,
                   in_progress, task, goVars, svcVars, decVars, libVars>>

InitLimiter ==
    /\ now = 0
    /\ RefreshToken = "rt1"
    /\ current_token = [type |-> "personal", expires_at |-> HourLifetime]
    /\ GoInit
    /\ \E k \in 0..MaxPriorFailures : AfterFailures(k)
    /\ recent = {}
    /\ token_cache = [c \in Contexts |-> <<>>]
    /\ in_progress = {}
    /\ task = [w \in Workers |-> IdleTask]
    /\ ev = NoEv
    /\ ServiceInit
    /\ DecodeInit
    /\ LibInit

NextLimiter ==
    \/ \E w \in Workers : LimitedAttempt(w)
    \/ \E w \in Workers : AttemptDone(w)
    \/ TickLimiter

SpecLimiter == InitLimiter /\ [][NextLimiter]_vars

(***************************************************************************)
(*                     Properties of the rate limiter                      *)
(***************************************************************************)
\* the hourly limit, the daily limit and the minimum interval permit a request
OtherLimitsPermit(times, t) ==
    /\ hourly_count(cleanup_old_requests(times, t), t) < max_requests_per_hour
    /\ daily_count(cleanup_old_requests(times, t), t) < max_requests_per_day
    /\ ~RequestedWithin(cleanup_old_requests(times, t), t, min_interval)

\* baseDelay * 2^min(n - 5, capExponent)
CooldownOf(n) ==
    cooldown_base * Pow2(IF n - failure_threshold < cooldown_cap_exponent
                         THEN n - failure_threshold ELSE cooldown_cap_exponent)

\* the time since the last failed acquisition
SinceLastFailure == now - failures.last_failed

C27_CooldownCappedAtOneHour ==
    OtherLimitsPermit(request_times, now) =>
        /\ failures.consecutive > failure_threshold =>
               (can_make_request(request_times, failures, now)
                    <=> SinceLastFailure >= CooldownOf(failures.consecutive))
        /\ SinceLastFailure >= HourUnits =>
               can_make_request(request_times, failures, now)

(***************************************************************************)
(*                   The stream-decode endpoint's run                      *)
(*                                                                         *)
(* Each handler runs in a goroutine of its own and the Go scheduler gives  *)
(* every runnable goroutine its turn: a loop step that stays enabled is    *)
(* taken.                                                                  *)
(***************************************************************************)
InitDecode ==
    /\ now = 0
    /\ RefreshToken = ""
    /\ current_token = [type |-> "none", expires_at |-> 0]
    /\ GoInit
    /\ TokenInit
    /\ ServiceInit
    /\ DecodeInit
    /\ LibInit

NextDecode ==
    \/ \E w \in Workers : StreamDecode(w)
    \/ \E w \in Workers : DecodeStep(w)
    \/ \E w \in Workers : WriteEvent(w)

SpecDecode ==
    /\ InitDecode
    /\ [][NextDecode]_vars
    /\ \A w \in Workers : WF_vars(DecodeStep(w)) /\ WF_vars(WriteEvent(w))

\* C25: every stream-decode request terminates: once the body is bound the
\* loop of StreamDecodeProtobuf comes to its end and the handler returns.
C25_StreamDecodeTerminates ==
    \A w \in Workers : (dec[w].pc = "decode") ~> (dec[w].pc = "done")

(***************************************************************************)
(*               Further properties of the two handlers                    *)
(***************************************************************************)
\* the upstream's parsed answer has been given to convertWarpToMessagesResponse
Converted ==
    /\ Bound("messages")
    /\ ~hreq["messages"].stream
    /\ hpc["messages"] = "done"
    /\ calls["messages"].answer.kind = "ok"

\* C34: convertWarpToMessagesResponse gives a Messages response for every
\* upstream response, one without choices included, and never faults: the
\* answer written is the response, not the recovery from a panic.
C34_ConversionNeverFaults ==
    Converted =>
        /\ Len(wire["messages"]) = 1
        /\ wire["messages"][1] # Recovered
        /\ wire["messages"][1].kind = "json"
        /\ wire["messages"][1].body # NoBody

(***************************************************************************)
(*                  The batch processor's run                              *)
(***************************************************************************)
InitBatch ==
    /\ now = 0
    /\ RefreshToken = ""
    /\ current_token = [type |-> "none", expires_at |-> 0]
    /\ GoInit
    /\ TokenInit
    /\ ServiceInit
    /\ DecodeInit
    /\ LibInit

NextBatch ==
    \/ AddRequest
    \/ startTimeout
    \/ processBatch
    \/ SendResponses
    \/ FinishBatch

SpecBatch == InitBatch /\ [][NextBatch]_vars

\* no goroutine of the processor is left to run
Quiescent == bat.timers = 0 /\ bat.spawned = 0 /\ bat.batches = {}

\* C31: every request added gets exactly one response on its channel, also
\* when no request is added after it and when it was added while a batch was
\* being processed: once every goroutine the processor started has run to
\* its end, each request added so far has its response.
C31_EveryRequestAnswered ==
    Quiescent => \A i \in 1..bat.added : bat.got[i] = 1

\* C36: no two batches are in their processing phase at the same time and
\* no request is taken into more than one batch.
C36_OneBatchAtATime ==
    /\ Cardinality(bat.batches) <= 1
    /\ \A i \in 1..bat.added : bat.taken[i] <= 1

\* C36 witness: with a batch being processed and requests queued behind it,
\* another processBatch is about to take the lock
C36_Witness ==
    /\ \E b \in bat.batches : b.phase = "process"
    /\ bat.spawned > 0
    /\ Len(bat.requests) > 0

(***************************************************************************)
(*                         The cache's run                                 *)
(***************************************************************************)
InitCache ==
    /\ now = 0
    /\ RefreshToken = ""
    /\ current_token = [type |-> "none", expires_at |-> 0]
    /\ GoInit
    /\ TokenInit
    /\ ServiceInit
    /\ DecodeInit
    /\ LibInit

NextCache ==
    \/ CacheSet
    \/ CacheGet
    \/ CacheDelete
    \/ DeferredDelete
    \/ Cleanup
    \/ TickCache

SpecCache == InitCache /\ [][NextCache]_vars

\* C32: an entry stays in the cache until its TTL has passed or a caller
\* deletes or overwrites its key: no other step, the deletion Get started
\* for an expired entry included, removes or changes an entry that has not
\* expired.
C32_FreshEntryStays ==
    [][\A k \in CacheKeys :
         (/\ kv.items[k] # <<>>
          /\ ~(now' > kv.items[k][1].expires_at)
          /\ ~(kv'.last.op \in {"set", "delete"} /\ kv'.last.key = k))
         => kv'.items[k] = kv.items[k]]_vars

\* C37: Get reports found only for an entry that is there and whose expiry
\* time has not passed at the time of the call.
C37_GetNeverReturnsExpired ==
    (kv.last.op = "get" /\ kv.last.found) =>
        /\ kv.last.expires_at >= kv.last.at
        /\ kv.items[kv.last.key] # <<>>
        /\ kv.items[kv.last.key][1].value = kv.last.value

\* C37 witness: an entry returned at the very moment of its expiry, while
\* the other key's entry, expired, waits for its deferred deletion
C37_Witness ==
    /\ kv.last.op = "get" /\ kv.last.found /\ kv.last.expires_at = kv.last.at
    /\ \E k \in CacheKeys : kv.deleting[k] > 0

(***************************************************************************)
(*                     The connection pool's run                           *)
(***************************************************************************)
InitPool ==
    /\ now = 0
    /\ RefreshToken = ""
    /\ current_token = [type |-> "none", expires_at |-> 0]
    /\ GoInit
    /\ TokenInit
    /\ ServiceInit
    /\ DecodeInit
    /\ LibInit

NextPool ==
    \/ GetClient
    \/ ReturnClient

SpecPool == InitPool /\ [][NextPool]_vars

\* C33: a client handed out by GetClient is handed to no other caller until
\* it has been returned, also with more callers than maxSize: no client is
\* held by two callers.
C33_ClientHeldByOne ==
    \A c \in PoolClients : pool.held[c] <= 1

(***************************************************************************)
(*                  The refresh secret's run                               *)
(***************************************************************************)
InitSecret ==
    /\ now = 0
    /\ RefreshToken = "rt1"
    /\ current_token = [type |-> "none", expires_at |-> 0]
    /\ GoInit
    /\ TokenInit
    /\ ServiceInit
    /\ DecodeInit
    /\ LibInit

NextSecret ==
    \/ \E w \in Workers : RefreshPost(w)
    \/ \E w \in Workers : RefreshResponse(w)
    \/ \E w \in Workers : RefreshStore(w)
    \/ GetTokenInfo

SpecSecret == InitSecret /\ [][NextSecret]_vars

\* C35: the updates of the stored refresh secret exclude each other and the
\* concurrent reads: no step of a refresh stores a secret that was issued
\* before the one it replaces.
C35_NewerSecretStays ==
    [][sec'.stored >= sec.stored]_vars

(***************************************************************************)
(*                    The rate limiter's run                               *)
(***************************************************************************)
InitRateLimit ==
    /\ now = 0
    /\ RefreshToken = ""
    /\ current_token = [type |-> "none", expires_at |-> 0]
    /\ GoInit
    /\ TokenInit
    /\ ServiceInit
    /\ DecodeInit
    /\ BatchInit
    /\ CacheInit
    /\ PoolInit
    /\ HistoryInit
    /\ SecretInit
    /\ \E r \in Rates, b \in Bursts : rl = NewLimiter(r, b)

NextRateLimit ==
    \/ RateLimit
    \/ TickRateLimit

SpecRateLimit == InitRateLimit /\ [][NextRateLimit]_vars

\* C38: the bucket refills at r requests a minute for every positive r: a
\* request that arrives after at least 60/r seconds without a request is
\* admitted; a refused request gets a 429 and does not reach the handler.
C38_RefillsAtConfiguredRate ==
    /\ rl.last.kind # "none" /\ rl.last.idle * rl.r >= 60 => rl.last.kind = "admitted"
    /\ rl.last.kind = "refused" => rl.last.status = 429 /\ ~rl.last.handler

(***************************************************************************)
(*                    The packet history's run                             *)
(***************************************************************************)
InitHistory ==
    /\ now = 0
    /\ RefreshToken = ""
    /\ current_token = [type |-> "none", expires_at |-> 0]
    /\ GoInit
    /\ TokenInit
    /\ ServiceInit
    /\ DecodeInit
    /\ LibInit

NextHistory ==
    \/ Encode
    \/ Decode

SpecHistory == InitHistory /\ [][NextHistory]_vars

\* C39: after any sequence of Encode and Decode calls the packet history
\* holds at most 100 entries, and they are the most recent calls, each with
\* its operation, in the order in which the calls were made.
C39_HistoryIsLastHundred ==
    LET h == hist.packetHistory
        made == Len(hist.calls)
    IN  /\ Len(h) <= historyLimit
        /\ Len(h) = (IF made < historyLimit THEN made ELSE historyLimit)
        /\ \A i \in 1..Len(h) :
              h[i] = [n |-> made - Len(h) + i, operation |-> hist.calls[made - Len(h) + i]]

\* more than 100 calls have been made, a Decode among the last 100
C39_Witness ==
    /\ Len(hist.calls) > historyLimit
    /\ Len(hist.packetHistory) = historyLimit
    /\ \E i \in 1..Len(hist.packetHistory) : hist.packetHistory[i].operation = "decode"

====
